---- MODULE Spec2Model ----
(***************************************************************************)
(* Model of quick_start.py, the TrustLensAI bootstrap script: the .env     *)
(* loader, the environment validator, the dependency installer, the        *)
(* directory provisioner and the database initializer.                     *)
(*                                                                         *)
(* Strings are sequences of one-character strings, so that trimming,       *)
(* splitting and quote stripping are computed character by character as    *)
(* the Python code computes them.  os.environ is a function from keys to   *)
(* values.  The .env file is a flag (does the path exist) and its content. *)
(***************************************************************************)
EXTENDS Integers, Sequences, FiniteSets, TLC

VARIABLES
    environ,      \* os.environ: function from key to value
    env_exists,   \* Path(".env").exists()
    env_content,  \* the characters of .env (meaningful when env_exists)
    version_info, \* sys.version_info, <<major, minor>>
    dirs,         \* the directories that exist under the working directory
    pc,           \* position inside setup_databases, "idle" between calls
    op,           \* the function called last
    ret,          \* its outcome: "True", "False", "None", "raised", "running"
    pre,          \* environ and .env as they were when that call started
    invoked,      \* the subprocess invocations of that call, in order
    fresh_run     \* only validator calls since a state without key and file

vars == <<environ, env_exists, env_content, version_info, dirs, pc, op, ret,
          pre, invoked, fresh_run>>

(***************************************************************************)
(* Bounds of the model.                                                    *)
(***************************************************************************)
MaxLines == 2     \* lines of a .env file assembled from the sample lines
MaxValLen == 3    \* characters of the value of a one-line file FOO=<value>

(***************************************************************************)
(* String helpers: str.strip, str.splitlines, str.split("=", 1).           *)
(***************************************************************************)
WhitespaceChars == {" ", "\t", "\n", "\r"}

\* s.strip(chars): drop the leading and trailing characters that are in chars
strip(s, chars) ==
    LET keep == {i \in 1..Len(s) : s[i] \notin chars}
    IN  IF keep = {} THEN <<>>
        ELSE LET first == CHOOSE i \in keep : \A j \in keep : i <= j
                 last  == CHOOSE i \in keep : \A j \in keep : j <= i
             IN  SubSeq(s, first, last)

\* c in s
contains(s, c) == \E i \in 1..Len(s) : s[i] = c

\* index of the first occurrence of c in s (s contains c)
find(s, c) == CHOOSE i \in 1..Len(s) : s[i] = c /\ \A j \in 1..(i-1) : s[j] # c

RECURSIVE splitlines(_)
splitlines(s) ==
    IF s = <<>> THEN <<>>
    ELSE IF ~contains(s, "\n") THEN <<s>>
    ELSE LET i == find(s, "\n")
         IN  <<SubSeq(s, 1, i-1)>> \o splitlines(SubSeq(s, i+1, Len(s)))

(***************************************************************************)
(* _load_env_file                                                          *)
(***************************************************************************)
\* the test of line 29: the stripped line is skipped
skipped(line) == line = <<>> \/ line[1] = "#" \/ ~contains(line, "=")

\* lines 31-32: the key of a line that is not skipped
line_key(line) == strip(SubSeq(line, 1, find(line, "=") - 1), WhitespaceChars)

\* lines 31 and 33: the value of a line that is not skipped
line_value(line) ==
    LET v == SubSeq(line, find(line, "=") + 1, Len(line))
    IN  strip(strip(strip(v, WhitespaceChars), {"\""}), {"'"})

\* the body of the loop without the test `k not in os.environ`
load_line_overwrite(e, raw) ==
    LET line == strip(raw, WhitespaceChars)
    IN  IF skipped(line) THEN e
        ELSE LET k == line_key(line)
                 v == line_value(line)
             IN  IF k # <<>> THEN (k :> v) @@ e ELSE e

\* the body of the loop without the test for comment lines
load_line_comments(e, raw) ==
    LET line == strip(raw, WhitespaceChars)
    IN  IF line = <<>> \/ ~contains(line, "=") THEN e
        ELSE LET k == line_key(line)
                 v == line_value(line)
             IN  IF k # <<>> /\ k \notin DOMAIN e THEN e @@ (k :> v) ELSE e

\* the body of the loop, lines 28-36, applied to the environment e
load_line(e, raw) ==
    LET line == strip(raw, WhitespaceChars)
    IN  IF skipped(line) THEN e
        ELSE LET k == line_key(line)
                 v == line_value(line)
             IN  IF k # <<>> /\ k \notin DOMAIN e THEN e @@ (k :> v) ELSE e

\* the loop over the lines from the last line to the first
RECURSIVE load_lines_reversed(_, _)
load_lines_reversed(e, lines) ==
    IF lines = <<>> THEN e
    ELSE load_line(load_lines_reversed(e, Tail(lines)), Head(lines))

\* the loop of line 27 over the lines, in file order
RECURSIVE load_lines(_, _)
load_lines(e, lines) ==
    IF lines = <<>> THEN e
    ELSE load_lines(load_line(e, Head(lines)), Tail(lines))

\* _load_env_file: the environment after the call.  readable = FALSE is a
\* read_text that raises (permissions, decoding): the except clause logs a
\* warning and nothing has been assigned.
_load_env_file(e, exists, content, readable) ==
    IF ~exists THEN e
    ELSE IF ~readable THEN e
    ELSE load_lines(e, splitlines(content))

(***************************************************************************)
(* check_environment_variables                                             *)
(***************************************************************************)
GOOGLE_API_KEY ==
    <<"G", "O", "O", "G", "L", "E", "_", "A", "P", "I", "_", "K", "E", "Y">>

\* the template of lines 66-72
env_template ==
    <<"#", " ", "T", "r", "u", "s", "t", "L", "e", "n", "s", "A", "I", " ", " ",
      "E", "n", "v", "i", "r", "o", "n", "m", "e", "n", "t", " ", "V", "a", "r",
      "i", "a", "b", "l", "e", "s", "\n">> \o
    <<"G", "O", "O", "G", "L", "E", "_", "A", "P", "I", "_", "K", "E", "Y", "=",
      "y", "o", "u", "r", "_", "g", "e", "m", "i", "n", "i", "_", "a", "p", "i",
      "_", "k", "e", "y", "_", "h", "e", "r", "e", "\n">> \o
    <<"S", "E", "C", "R", "E", "T", "_", "K", "E", "Y", "=", "c", "h", "a", "n",
      "g", "e", "-", "t", "h", "i", "s", "-", "i", "n", "-", "p", "r", "o", "d",
      "u", "c", "t", "i", "o", "n", "\n">> \o
    <<"H", "O", "S", "T", "=", "0", ".", "0", ".", "0", ".", "0", "\n">> \o
    <<"P", "O", "R", "T", "=", "5", "0", "0", "1", "\n">> \o
    <<"D", "E", "B", "U", "G", "=", "T", "r", "u", "e", "\n">>

\* lines 57-58, `not os.getenv('GOOGLE_API_KEY')`: the name is not set, or
\* it is set to the empty string
google_api_key_missing(e) ==
    GOOGLE_API_KEY \notin DOMAIN e \/ e[GOOGLE_API_KEY] = <<>>

\* environ and .env at the start of a call, and whether .env could be read
snapshot(readable) ==
    [environ |-> environ, exists |-> env_exists, content |-> env_content,
     readable |-> (env_exists /\ readable)]

\* the effects of the validator with the test of line 65 left out
check_effects_rewrite(readable, writable) ==
    LET e == _load_env_file(environ, env_exists, env_content, readable)
    IN  /\ environ' = e
        /\ IF google_api_key_missing(e)
           THEN IF writable
                THEN /\ env_exists' = TRUE
                     /\ env_content' = env_template
                     /\ ret' = "False"
                ELSE /\ UNCHANGED <<env_exists, env_content>>
                     /\ ret' = "raised"
           ELSE /\ UNCHANGED <<env_exists, env_content>>
                /\ ret' = "True"

\* the effects of the validator with the key read before the file is loaded
check_effects_before_load(readable, writable) ==
    LET e == _load_env_file(environ, env_exists, env_content, readable)
    IN  /\ environ' = e
        /\ IF google_api_key_missing(environ)
           THEN IF ~env_exists
                THEN IF writable
                     THEN /\ env_exists' = TRUE
                          /\ env_content' = env_template
                          /\ ret' = "False"
                     ELSE /\ UNCHANGED <<env_exists, env_content>>
                          /\ ret' = "raised"
                ELSE /\ UNCHANGED <<env_exists, env_content>>
                     /\ ret' = "False"
           ELSE /\ UNCHANGED <<env_exists, env_content>>
                /\ ret' = "True"

\* the effect of lines 55-82 on environ, .env and the outcome.  writable =
\* FALSE is an open('w') that raises; nothing in the function catches it.
check_effects(readable, writable) ==
    LET e == _load_env_file(environ, env_exists, env_content, readable)
    IN  /\ environ' = e
        /\ IF google_api_key_missing(e)
           THEN IF ~env_exists
                THEN IF writable
                     THEN /\ env_exists' = TRUE
                          /\ env_content' = env_template
                          /\ ret' = "False"
                     ELSE /\ UNCHANGED <<env_exists, env_content>>
                          /\ ret' = "raised"
                ELSE /\ UNCHANGED <<env_exists, env_content>>
                     /\ ret' = "False"
           ELSE /\ UNCHANGED <<env_exists, env_content>>
                /\ ret' = "True"

check_environment_variables ==
    /\ pc = "idle"
    /\ \E readable \in BOOLEAN, writable \in BOOLEAN :
          /\ check_effects(readable, writable)
          /\ pre' = snapshot(readable)
    /\ op' = "check_environment_variables"
    /\ invoked' = <<>>
    /\ fresh_run' = (fresh_run \/ (GOOGLE_API_KEY \notin DOMAIN environ /\ ~env_exists))
    /\ UNCHANGED <<version_info, dirs, pc>>

\* a call of the loader on its own
load_env_file ==
    /\ pc = "idle"
    /\ \E readable \in BOOLEAN :
          /\ environ' = _load_env_file(environ, env_exists, env_content, readable)
          /\ pre' = snapshot(readable)
    /\ op' = "_load_env_file"
    /\ ret' = "None"
    /\ invoked' = <<>>
    /\ fresh_run' = FALSE
    /\ UNCHANGED <<env_exists, env_content, version_info, dirs, pc>>

(***************************************************************************)
(* check_python_version                                                    *)
(***************************************************************************)
\* sys.version_info < (3, 8), the comparison of tuples
version_lt(v, w) == v[1] < w[1] \/ (v[1] = w[1] /\ v[2] < w[2])

check_python_version ==
    /\ pc = "idle"
    /\ ret' = IF version_lt(version_info, <<3, 8>>) THEN "False" ELSE "True"
    /\ op' = "check_python_version"
    /\ pre' = snapshot(TRUE)
    /\ invoked' = <<>>
    /\ fresh_run' = FALSE
    /\ UNCHANGED <<environ, env_exists, env_content, version_info, dirs, pc>>

(***************************************************************************)
(* Subprocesses: subprocess.run(..., check=True) either returns (exit code *)
(* 0), raises CalledProcessError (non-zero exit code) or raises            *)
(* FileNotFoundError (the executable cannot be started).                   *)
(***************************************************************************)
Outcomes == {"exit0", "nonzero", "notfound"}

(***************************************************************************)
(* install_dependencies                                                    *)
(***************************************************************************)
install_dependencies ==
    /\ pc = "idle"
    /\ \E outcome \in Outcomes :
          /\ invoked' = << <<"pip", outcome>> >>
          /\ ret' = IF outcome = "exit0" THEN "True" ELSE "False"
    /\ op' = "install_dependencies"
    /\ pre' = snapshot(TRUE)
    /\ fresh_run' = FALSE
    /\ UNCHANGED <<environ, env_exists, env_content, version_info, dirs, pc>>

(***************************************************************************)
(* setup_directories                                                       *)
(***************************************************************************)
\* the list of lines 111-118, each path as its components
directories ==
    << <<"data">>, <<"data", "chromadb">>, <<"data", "security">>,
       <<"logs">>, <<"frontend", "public">>, <<"frontend", "src">> >>

\* Path.mkdir(parents=True, exist_ok=True): the path and its missing parents
mkdir(existing, path) ==
    existing \cup {SubSeq(path, 1, n) : n \in 1..Len(path)}

RECURSIVE mkdir_all(_, _, _)
mkdir_all(existing, paths, n) ==
    IF n = 0 THEN existing
    ELSE mkdir(mkdir_all(existing, paths, n - 1), paths[n])

\* fail_at = 0: every mkdir succeeds; otherwise the mkdir of that entry
\* raises (permission denied) after the earlier ones have been made
setup_directories ==
    /\ pc = "idle"
    /\ \E fail_at \in 0..Len(directories) :
          IF fail_at = 0
          THEN /\ dirs' = mkdir_all(dirs, directories, Len(directories))
               /\ ret' = "None"
          ELSE /\ dirs' = mkdir_all(dirs, directories, fail_at - 1)
               /\ ret' = "raised"
    /\ op' = "setup_directories"
    /\ pre' = snapshot(TRUE)
    /\ invoked' = <<>>
    /\ fresh_run' = FALSE
    /\ UNCHANGED <<environ, env_exists, env_content, version_info, pc>>

(***************************************************************************)
(* setup_databases: the call, then one step per subprocess.run             *)
(***************************************************************************)
setup_databases ==
    /\ pc = "idle"
    /\ pc' = "setup_database.py"
    /\ op' = "setup_databases"
    /\ ret' = "running"
    /\ pre' = snapshot(TRUE)
    /\ invoked' = <<>>
    /\ fresh_run' = FALSE
    /\ UNCHANGED <<environ, env_exists, env_content, version_info, dirs>>

\* what would follow a subprocess.run without check=True
after_run_unchecked(outcome, next, result) ==
    IF outcome = "notfound" THEN <<"idle", "raised">> ELSE <<next, result>>

\* what follows a subprocess.run of setup_databases: the next position and
\* the outcome of the call.  Only CalledProcessError is caught (line 149).
after_run(outcome, next, result) ==
    IF outcome = "exit0" THEN <<next, result>>
    ELSE IF outcome = "nonzero" THEN <<"idle", "False">>
    ELSE <<"idle", "raised">>

\* lines 133-136
run_setup_database ==
    /\ pc = "setup_database.py"
    /\ \E outcome \in Outcomes :
          /\ invoked' = Append(invoked, <<"setup_database.py", outcome>>)
          /\ pc' = after_run(outcome, "setup_chromadb.py", "running")[1]
          /\ ret' = after_run(outcome, "setup_chromadb.py", "running")[2]
    /\ UNCHANGED <<environ, env_exists, env_content, version_info, dirs, op,
                   pre, fresh_run>>

\* lines 141-147
run_setup_chromadb ==
    /\ pc = "setup_chromadb.py"
    /\ \E outcome \in Outcomes :
          /\ invoked' = Append(invoked, <<"setup_chromadb.py", outcome>>)
          /\ pc' = after_run(outcome, "idle", "True")[1]
          /\ ret' = after_run(outcome, "idle", "True")[2]
    /\ UNCHANGED <<environ, env_exists, env_content, version_info, dirs, op,
                   pre, fresh_run>>

(***************************************************************************)
(* Initial states: the process environment, the .env file and the          *)
(* interpreter the script is started with.                                 *)
(***************************************************************************)
FOO == <<"F", "O", "O">>

\* lines a .env file is assembled from (without their line terminator)
SampleLines ==
    { <<>>,                                              \* blank
      <<" ", " ">>,                                      \* only spaces
      <<"#", " ", "F", "O", "O", "=", "c">>,             \* comment
      <<"F", "O", "O">>,                                 \* no separator
      <<"=", "a">>,                                      \* empty key
      <<"F", "O", "O", "=", "a">>,
      <<"F", "O", "O", "=", "b">>,
      <<" ", "F", "O", "O", " ", "=", " ", "\"", "a", " ", "b", "\"", " ">>,
      <<"B", "A", "R", "=", "a", "=", "b">>,              \* two separators
      GOOGLE_API_KEY \o <<"=", "k">>,
      GOOGLE_API_KEY \o <<"=">> }

ValueChars == {"a", " ", "\"", "'"}

SeqsUpTo(S, n) == UNION {[1..m -> S] : m \in 0..n}

RECURSIVE joinlines(_)
joinlines(lines) ==
    IF lines = <<>> THEN <<>>
    ELSE Head(lines) \o <<"\n">> \o joinlines(Tail(lines))

InitContents ==
    {joinlines(ls) : ls \in SeqsUpTo(SampleLines, MaxLines)}
    \cup {FOO \o <<"=">> \o v \o <<"\n">> : v \in SeqsUpTo(ValueChars, MaxValLen)}

InitEnvirons ==
    { <<>>,
      GOOGLE_API_KEY :> <<"k">>,
      GOOGLE_API_KEY :> <<>>,
      FOO :> <<"x">>,
      (FOO :> <<"x">>) @@ (GOOGLE_API_KEY :> <<"k">>) }

InitVersions == { <<2, 7>>, <<3, 7>>, <<3, 8>> }

\* the loader and the validator, over every sample environment and file
Init ==
    /\ environ \in InitEnvirons
    /\ \/ env_exists = FALSE /\ env_content = <<>>
       \/ env_exists = TRUE /\ env_content \in InitContents
    /\ version_info = <<3, 8>>
    /\ dirs = {}
    /\ pc = "idle"
    /\ op = "none"
    /\ ret = "None"
    /\ pre = [environ |-> environ, exists |-> env_exists,
              content |-> env_content, readable |-> env_exists]
    /\ invoked = <<>>
    /\ fresh_run = FALSE

Next ==
    \/ load_env_file
    \/ check_environment_variables

Spec == Init /\ [][Next]_vars

\* every step function, from a fresh checkout: no key, no .env, no directory
InitSetup ==
    /\ environ \in {<<>>, GOOGLE_API_KEY :> <<"k">>}
    /\ env_exists = FALSE /\ env_content = <<>>
    /\ version_info \in InitVersions
    /\ dirs = {}
    /\ pc = "idle"
    /\ op = "none"
    /\ ret = "None"
    /\ pre = [environ |-> environ, exists |-> env_exists,
              content |-> env_content, readable |-> env_exists]
    /\ invoked = <<>>
    /\ fresh_run = FALSE

NextSetup ==
    \/ check_python_version
    \/ check_environment_variables
    \/ install_dependencies
    \/ setup_directories
    \/ setup_databases
    \/ run_setup_database
    \/ run_setup_chromadb

SpecSetup == InitSetup /\ [][NextSetup]_vars

(***************************************************************************)
(* Vocabulary of the properties.                                           *)
(***************************************************************************)
\* the lines of .env as the last call found it
pre_lines == splitlines(pre.content)

\* a line that is blank, a comment or without separator, after trimming
inert(raw) ==
    LET line == strip(raw, WhitespaceChars)
    IN  line = <<>> \/ line[1] = "#" \/ ~contains(line, "=")

\* the key a line assigns, <<>> for an inert line
assigned_key(raw) ==
    IF inert(raw) THEN <<>> ELSE line_key(strip(raw, WhitespaceChars))

\* line i of lines is the first line of the file that assigns its key, and
\* that key is not empty and not in the environment e
first_assignment(e, lines, i) ==
    /\ assigned_key(lines[i]) # <<>>
    /\ assigned_key(lines[i]) \notin DOMAIN e
    /\ \A j \in 1..(i-1) : assigned_key(lines[j]) # assigned_key(lines[i])

\* the text after the first "=" of a line, trimmed
trimmed_value(raw) ==
    LET line == strip(raw, WhitespaceChars)
    IN  strip(SubSeq(line, find(line, "=") + 1, Len(line)), WhitespaceChars)

\* one layer of matching surrounding quotes removed
one_layer_removed(v) ==
    IF Len(v) >= 2 /\ v[1] = v[Len(v)] /\ v[1] \in {"\"", "'"}
    THEN SubSeq(v, 2, Len(v) - 1)
    ELSE v

loader_read_file ==
    op = "_load_env_file" /\ pre.exists /\ pre.readable

validator_called == op = "check_environment_variables"

(***************************************************************************)
(* C1: no step of the loader or of the validator changes or removes a key  *)
(* that is in the environment; they only add keys.                         *)
(***************************************************************************)
C1_OnlyAdds ==
    [][\A k \in DOMAIN environ :
          k \in DOMAIN environ' /\ environ'[k] = environ[k]]_vars

\* the loader has read a file that assigns another value to a key that was set
C1_Witness ==
    /\ loader_read_file
    /\ \E i \in 1..Len(pre_lines) :
          /\ assigned_key(pre_lines[i]) \in DOMAIN pre.environ
          /\ trimmed_value(pre_lines[i]) # pre.environ[assigned_key(pre_lines[i])]
          /\ environ[assigned_key(pre_lines[i])]
                = pre.environ[assigned_key(pre_lines[i])]

(***************************************************************************)
(* C2, as stated: called with an existing .env and GOOGLE_API_KEY not in   *)
(* the environment, the validator leaves the file unchanged and returns    *)
(* False.                                                                  *)
(***************************************************************************)
C2_Original ==
    (validator_called /\ pre.exists /\ GOOGLE_API_KEY \notin DOMAIN pre.environ)
    => (env_exists /\ env_content = pre.content /\ ret = "False")

(***************************************************************************)
(* C2, amended: called with an existing .env and GOOGLE_API_KEY not in the *)
(* environment, the validator leaves the file unchanged; it returns True   *)
(* when the loader has bound GOOGLE_API_KEY to a non-empty value and False *)
(* otherwise.                                                              *)
(***************************************************************************)
C2_Amended ==
    (validator_called /\ pre.exists /\ GOOGLE_API_KEY \notin DOMAIN pre.environ)
    => /\ env_exists
       /\ env_content = pre.content
       /\ IF GOOGLE_API_KEY \in DOMAIN environ /\ environ[GOOGLE_API_KEY] # <<>>
          THEN ret = "True"
          ELSE ret = "False"

\* the file has a GOOGLE_API_KEY line, with an empty value: failure, file kept
C2_Witness ==
    /\ validator_called /\ pre.exists /\ pre.readable
    /\ GOOGLE_API_KEY \notin DOMAIN pre.environ
    /\ \E i \in 1..Len(pre_lines) : assigned_key(pre_lines[i]) = GOOGLE_API_KEY
    /\ ret = "False"
    /\ env_content = pre.content

(***************************************************************************)
(* C3: called with no .env and GOOGLE_API_KEY not in the environment, the  *)
(* validator creates .env holding the template, returns False and leaves   *)
(* the environment as it was.                                              *)
(***************************************************************************)
C3_Original ==
    (validator_called /\ ~pre.exists /\ GOOGLE_API_KEY \notin DOMAIN pre.environ)
    => /\ env_exists
       /\ env_content = env_template
       /\ ret = "False"
       /\ environ = pre.environ

(***************************************************************************)
(* C4, as stated: whenever GOOGLE_API_KEY is a key of the environment once *)
(* the loader has run, with any value, the validator returns True and      *)
(* neither creates nor modifies .env.                                      *)
(***************************************************************************)
C4_Original ==
    (validator_called /\ GOOGLE_API_KEY \in DOMAIN environ)
    => (ret = "True" /\ env_exists = pre.exists /\ env_content = pre.content)

(***************************************************************************)
(* C4, amended: whenever GOOGLE_API_KEY is bound to a non-empty value once *)
(* the loader has run, the validator returns True and neither creates nor  *)
(* modifies .env.                                                          *)
(***************************************************************************)
C4_Amended ==
    (/\ validator_called
     /\ GOOGLE_API_KEY \in DOMAIN environ
     /\ environ[GOOGLE_API_KEY] # <<>>)
    => (ret = "True" /\ env_exists = pre.exists /\ env_content = pre.content)

\* the key came from a line of the loaded file
C4_Witness ==
    /\ validator_called
    /\ GOOGLE_API_KEY \notin DOMAIN pre.environ
    /\ GOOGLE_API_KEY \in DOMAIN environ
    /\ environ[GOOGLE_API_KEY] # <<>>
    /\ ret = "True"

(***************************************************************************)
(* C5: in setup_databases, setup_chromadb.py is invoked only after         *)
(* setup_database.py has exited 0; when the first exits non-zero the       *)
(* second is not invoked and the call returns False; the call returns True *)
(* exactly when both were invoked in that order and both exited 0; no      *)
(* program is invoked twice.                                               *)
(***************************************************************************)
C5_ShortCircuit ==
    op = "setup_databases" =>
       /\ Len(invoked) <= 2
       /\ Len(invoked) >= 1 => invoked[1][1] = "setup_database.py"
       /\ Len(invoked) = 2 =>
             (invoked[2][1] = "setup_chromadb.py" /\ invoked[1][2] = "exit0")
       /\ (Len(invoked) >= 1 /\ invoked[1][2] = "nonzero") =>
             (Len(invoked) = 1 /\ pc = "idle" /\ ret = "False")
       /\ ret = "True" <=>
             (/\ pc = "idle"
              /\ Len(invoked) = 2
              /\ invoked[1][2] = "exit0"
              /\ invoked[2][2] = "exit0")

\* the first program failed and the call is over
C5_Witness ==
    /\ op = "setup_databases"
    /\ pc = "idle"
    /\ invoked = << <<"setup_database.py", "nonzero">> >>
    /\ ret = "False"

(***************************************************************************)
(* C6: for a line whose key is not empty and not yet in the environment,   *)
(* the loader binds the key to the text after the first "=", trimmed, with *)
(* exactly one layer of matching surrounding quotes removed; every other   *)
(* quote character is kept.                                                *)
(***************************************************************************)
C6_Original ==
    loader_read_file =>
       \A i \in 1..Len(pre_lines) :
          first_assignment(pre.environ, pre_lines, i) =>
             environ[assigned_key(pre_lines[i])]
                = one_layer_removed(trimmed_value(pre_lines[i]))

(***************************************************************************)
(* C7: check_python_version, check_environment_variables,                  *)
(* install_dependencies and setup_databases end every call by returning    *)
(* True or False; no exception escapes them.                               *)
(***************************************************************************)
C7_Original ==
    (/\ op \in {"check_python_version", "check_environment_variables",
                "install_dependencies", "setup_databases"}
     /\ pc = "idle")
    => ret \in {"True", "False"}

(***************************************************************************)
(* C8: a blank line, a comment line and a line without "=" cause no        *)
(* mutation of the environment; for a file of such lines only, and for a   *)
(* missing file, the loader returns with the environment as it was.        *)
(***************************************************************************)
C8_InertLines ==
    op = "_load_env_file" =>
       /\ ret = "None"
       /\ (~pre.exists \/ \A i \in 1..Len(pre_lines) : inert(pre_lines[i]))
             => environ = pre.environ
       /\ (pre.exists /\ pre.readable) =>
             LET assigning(raw) == ~inert(raw)
             IN  environ = load_lines(pre.environ, SelectSeq(pre_lines, assigning))

\* a file of several inert lines, one of them a comment holding a "="
C8_Witness ==
    /\ loader_read_file
    /\ Len(pre_lines) >= 2
    /\ \A i \in 1..Len(pre_lines) : inert(pre_lines[i])
    /\ \E i \in 1..Len(pre_lines) : contains(pre_lines[i], "=")
    /\ environ = pre.environ

(***************************************************************************)
(* C9: from a state without GOOGLE_API_KEY and without .env, no call of a  *)
(* sequence of consecutive validator calls passes: the validator never     *)
(* returns True on the template it wrote itself.                           *)
(***************************************************************************)
C9_Original ==
    (validator_called /\ fresh_run) => ret # "True"

(***************************************************************************)
(* C10: when several lines assign the same key, and the key was not in the *)
(* environment, the key is bound to the parsed value of the first of these *)
(* lines; loading the file again changes nothing.                          *)
(***************************************************************************)
C10_FirstWins ==
    loader_read_file =>
       /\ \A i \in 1..Len(pre_lines) :
             first_assignment(pre.environ, pre_lines, i) =>
                environ[assigned_key(pre_lines[i])]
                   = line_value(strip(pre_lines[i], WhitespaceChars))
       /\ _load_env_file(environ, env_exists, env_content, TRUE) = environ

\* two lines assign different values to a key that was not set: the first won
C10_Witness ==
    /\ loader_read_file
    /\ \E i \in 1..Len(pre_lines) : \E j \in (i+1)..Len(pre_lines) :
          /\ first_assignment(pre.environ, pre_lines, i)
          /\ assigned_key(pre_lines[j]) = assigned_key(pre_lines[i])
          /\ trimmed_value(pre_lines[j]) # trimmed_value(pre_lines[i])
          /\ environ[assigned_key(pre_lines[i])] = trimmed_value(pre_lines[i])

====
